------------------------------ MODULE Spec2Model ------------------------------
(***************************************************************************)
(* Electronic Actor Enhancement Controller                                 *)
(* (examples/electronicActorEnhancementController/main.py).                *)
(*                                                                         *)
(* A two-state machine (ambient / triggered) that owns per-channel         *)
(* lighting effects (Dimmer with optional strobe, candle Flicker), an I2S  *)
(* playback channel and a debounced trigger input, driven by a             *)
(* single-threaded super-loop.                                             *)
(*                                                                         *)
(* The program targets CircuitPython, which does not mangle names that     *)
(* start with two underscores: self.__dim and self.__pwmout denote the     *)
(* same attribute in Effect, Dimmer and Flicker.                           *)
(*                                                                         *)
(* Timestamps are nanoseconds of the monotonic clock.  Values are kept     *)
(* below 2^31; a clock reading is any value not smaller than the previous  *)
(* reading.                                                                *)
(***************************************************************************)
EXTENDS Integers, Sequences, FiniteSets, TLC

(***************************************************************************)
(* Program constants                                                       *)
(***************************************************************************)
NANOSECONDS_PER_SECOND == 1000000000

\* TRIGGER_DURATION = 5.0 (seconds)
TRIGGER_DURATION == 5

\* the 30 Hz rate limit of Flicker.update, in ns
FLICKER_PERIOD == 33333333

\* feedback mask of the LFSR
LFSR_MASK == 33323

\* upper clamps of the setters
MAX_DIM == 255

MAX_STROBE == 1400

MAX_FLICKER_DIM == 5

\* Python's None, for Dimmer.__last_dim
None == -1

(***************************************************************************)
(* Bit operations on naturals                                              *)
(***************************************************************************)
RECURSIVE Pow2(_)
Pow2(n) == IF n = 0 THEN 1 ELSE 2 * Pow2(n - 1)

\* x >> n
Shr(x, n) == x \div Pow2(n)

\* x << n
Shl(x, n) == x * Pow2(n)

RECURSIVE Xor(_, _)
Xor(a, b) ==
    IF a = 0 THEN b
    ELSE IF b = 0 THEN a
    ELSE (((a % 2) + (b % 2)) % 2) + 2 * Xor(a \div 2, b \div 2)

(***************************************************************************)
(* Gamma table: int(((i / 255) ** 2.2) * 65535 + 0.5) for i in 0..255      *)
(***************************************************************************)
GammaTable == <<
    0, 0, 2, 4, 7, 11, 17, 24,
    32, 42, 53, 65, 79, 94, 111, 129,
    148, 169, 192, 216, 242, 270, 299, 330,
    362, 396, 432, 469, 508, 549, 591, 635,
    681, 729, 779, 830, 883, 938, 995, 1053,
    1113, 1175, 1239, 1305, 1373, 1443, 1514, 1587,
    1663, 1740, 1819, 1900, 1983, 2068, 2155, 2243,
    2334, 2427, 2521, 2618, 2717, 2817, 2920, 3024,
    3131, 3240, 3350, 3463, 3578, 3694, 3813, 3934,
    4057, 4182, 4309, 4438, 4570, 4703, 4838, 4976,
    5115, 5257, 5401, 5547, 5695, 5845, 5998, 6152,
    6309, 6468, 6629, 6792, 6957, 7124, 7294, 7466,
    7640, 7816, 7994, 8175, 8358, 8543, 8730, 8919,
    9111, 9305, 9501, 9699, 9900, 10102, 10307, 10515,
    10724, 10936, 11150, 11366, 11585, 11806, 12029, 12254,
    12482, 12712, 12944, 13179, 13416, 13655, 13896, 14140,
    14386, 14635, 14885, 15138, 15394, 15652, 15912, 16174,
    16439, 16706, 16975, 17247, 17521, 17798, 18077, 18358,
    18642, 18928, 19216, 19507, 19800, 20095, 20393, 20694,
    20996, 21301, 21609, 21919, 22231, 22546, 22863, 23182,
    23504, 23829, 24156, 24485, 24817, 25151, 25487, 25826,
    26168, 26512, 26858, 27207, 27558, 27912, 28268, 28627,
    28988, 29351, 29717, 30086, 30457, 30830, 31206, 31585,
    31966, 32349, 32735, 33124, 33514, 33908, 34304, 34702,
    35103, 35507, 35913, 36321, 36732, 37146, 37562, 37981,
    38402, 38825, 39252, 39680, 40112, 40546, 40982, 41421,
    41862, 42306, 42753, 43202, 43654, 44108, 44565, 45025,
    45487, 45951, 46418, 46888, 47360, 47835, 48313, 48793,
    49275, 49761, 50249, 50739, 51232, 51728, 52226, 52727,
    53230, 53736, 54245, 54756, 55270, 55787, 56306, 56828,
    57352, 57879, 58409, 58941, 59476, 60014, 60554, 61097,
    61642, 62190, 62741, 63295, 63851, 64410, 64971, 65535 >>

linear_to_gamma(i) == GammaTable[i + 1]

(***************************************************************************)
(* Effects.  An effect operation yields the new effect, the duty cycles it *)
(* wrote to its PWM output (in order), and the value it returned.          *)
(***************************************************************************)
Result(e, w, r) == [eff |-> e, wr |-> w, ret |-> r]

\* Dimmer.__init__: writes duty cycle 0 ("initialize to off")
Dimmer(out) ==
    Result([kind |-> "dimmer", out |-> out, dim |-> 0, strobe |-> 0,
            last_strobe |-> 0, transition_period |-> 0,
            last_transition_time |-> 0, next_transition |-> TRUE,
            last_dim |-> 0],
           <<0>>, None)

\* Dimmer.dim setter without "if (value > 255): value = 255"
DimmerSetDim_no_upper(e, value) ==
    [e EXCEPT !.dim = IF value < 0 THEN 0 ELSE value]

\* Dimmer.dim setter
DimmerSetDim(e, value) ==
    LET v1 == IF value < 0 THEN 0 ELSE value
        v2 == IF v1 > MAX_DIM THEN MAX_DIM ELSE v1
    IN  [e EXCEPT !.dim = v2]

\* int((NANOSECONDS_PER_SECOND / frequency) // 2)
TransitionPeriod(frequency) == (NANOSECONDS_PER_SECOND \div frequency) \div 2

\* Dimmer.strobe setter
DimmerSetStrobe(e, frequency) ==
    LET f1 == IF frequency < 0 THEN 0 ELSE frequency
        f2 == IF f1 > MAX_STROBE THEN MAX_STROBE ELSE f1
    IN  [e EXCEPT !.last_strobe = e.strobe,
                  !.strobe = f2,
                  !.transition_period =
                      IF f2 > 0 THEN TransitionPeriod(f2) ELSE @]

\* Dimmer.enter that keeps the cached __last_dim
DimmerEnter_keep_cache(e) ==
    [e EXCEPT !.last_transition_time = 0,
              !.next_transition = TRUE]

\* Dimmer.enter
DimmerEnter(e) ==
    [e EXCEPT !.last_transition_time = 0,
              !.next_transition = TRUE,
              !.last_dim = None]

\* Dimmer.update that rewrites the output on every steady update
DimmerUpdate_always_write(e, now) ==
    IF e.strobe = 0
    THEN Result([e EXCEPT !.last_dim = e.dim],
                <<linear_to_gamma(e.dim)>>, None)
    ELSE IF now >= e.last_transition_time + e.transition_period
         THEN IF e.next_transition
              THEN Result([e EXCEPT !.last_transition_time = now,
                                    !.last_dim = e.dim,
                                    !.next_transition = FALSE],
                          <<linear_to_gamma(e.dim)>>, None)
              ELSE Result([e EXCEPT !.last_transition_time = now,
                                    !.last_dim = 0,
                                    !.next_transition = TRUE],
                          <<0>>, None)
         ELSE Result(e, <<>>, None)

\* Dimmer.update that times the next flip from the scheduled time of this
\* one (last_transition_time + transition_period) instead of from now
DimmerUpdate_scheduled(e, now) ==
    IF e.strobe = 0
    THEN IF e.last_dim = None \/ e.last_dim # e.dim
         THEN Result([e EXCEPT !.last_dim = e.dim],
                     <<linear_to_gamma(e.dim)>>, None)
         ELSE Result(e, <<>>, None)
    ELSE IF now >= e.last_transition_time + e.transition_period
         THEN IF e.next_transition
              THEN Result([e EXCEPT !.last_transition_time =
                                        @ + e.transition_period,
                                    !.last_dim = e.dim,
                                    !.next_transition = FALSE],
                          <<linear_to_gamma(e.dim)>>, None)
              ELSE Result([e EXCEPT !.last_transition_time =
                                        @ + e.transition_period,
                                    !.last_dim = 0,
                                    !.next_transition = TRUE],
                          <<0>>, None)
         ELSE Result(e, <<>>, None)

\* Dimmer.update that makes up for a skipped period with a second flip
DimmerUpdate_catch_up(e, now) ==
    IF e.strobe = 0
    THEN IF e.last_dim = None \/ e.last_dim # e.dim
         THEN Result([e EXCEPT !.last_dim = e.dim],
                     <<linear_to_gamma(e.dim)>>, None)
         ELSE Result(e, <<>>, None)
    ELSE IF now >= e.last_transition_time + 2 * e.transition_period
         THEN IF e.next_transition
              THEN Result([e EXCEPT !.last_transition_time = now,
                                    !.last_dim = 0],
                          <<linear_to_gamma(e.dim), 0>>, None)
              ELSE Result([e EXCEPT !.last_transition_time = now,
                                    !.last_dim = e.dim],
                          <<0, linear_to_gamma(e.dim)>>, None)
    ELSE IF now >= e.last_transition_time + e.transition_period
         THEN IF e.next_transition
              THEN Result([e EXCEPT !.last_transition_time = now,
                                    !.last_dim = e.dim,
                                    !.next_transition = FALSE],
                          <<linear_to_gamma(e.dim)>>, None)
              ELSE Result([e EXCEPT !.last_transition_time = now,
                                    !.last_dim = 0,
                                    !.next_transition = TRUE],
                          <<0>>, None)
         ELSE Result(e, <<>>, None)

\* Dimmer.update
DimmerUpdate(e, now) ==
    IF e.strobe = 0
    THEN IF e.last_dim = None \/ e.last_dim # e.dim
         THEN Result([e EXCEPT !.last_dim = e.dim],
                     <<linear_to_gamma(e.dim)>>, None)
         ELSE Result(e, <<>>, None)
    ELSE IF now >= e.last_transition_time + e.transition_period
         THEN IF e.next_transition
              THEN Result([e EXCEPT !.last_transition_time = now,
                                    !.last_dim = e.dim,
                                    !.next_transition = FALSE],
                          <<linear_to_gamma(e.dim)>>, None)
              ELSE Result([e EXCEPT !.last_transition_time = now,
                                    !.last_dim = 0,
                                    !.next_transition = TRUE],
                          <<0>>, None)
         ELSE Result(e, <<>>, None)

\* Flicker.__init__: no write to the PWM output
Flicker(out, seed) ==
    Result([kind |-> "flicker", out |-> out, dim |-> 0, rnd_lfsr |-> seed,
            last_flicker |-> 0, duty_cycle |-> 0],
           <<>>, None)

\* Flicker.dim setter
FlickerSetDim(e, value) ==
    LET v1 == IF value < 0 THEN 0 ELSE value
        v2 == IF v1 > MAX_FLICKER_DIM THEN MAX_FLICKER_DIM ELSE v1
    IN  [e EXCEPT !.dim = v2]

\* _lfsr_step with the top bit of the feedback mask lost (0x022B)
lfsr_step_short_mask(rnd_lfsr) ==
    IF rnd_lfsr % 2 = 1
    THEN Xor(Shr(rnd_lfsr, 1), LFSR_MASK - 32768)
    ELSE Shr(rnd_lfsr, 1)

\* Flicker._lfsr_step
lfsr_step(rnd_lfsr) ==
    IF rnd_lfsr % 2 = 1
    THEN Xor(Shr(rnd_lfsr, 1), LFSR_MASK)
    ELSE Shr(rnd_lfsr, 1)

\* for i in range(3): step; break once the low byte is > 128
RECURSIVE LfsrAdvance(_, _)
LfsrAdvance(rnd_lfsr, n) ==
    LET s == lfsr_step(rnd_lfsr)
    IN  IF n = 1 \/ (s % 256) > 128 THEN s ELSE LfsrAdvance(s, n - 1)

\* newval taken from bit 7 instead of bit 8 (rnd_lfsr & 0x80)
FlickerNewval_bit7(rnd_lfsr) ==
    IF Shr(rnd_lfsr, 7) % 2 = 1 THEN 255 ELSE rnd_lfsr % 256

\* newval: 255 if bit 8 of the LFSR is set, else its low byte
FlickerNewval(rnd_lfsr) ==
    IF Shr(rnd_lfsr, 8) % 2 = 1 THEN 255 ELSE rnd_lfsr % 256

\* Flicker.update without the 30 Hz rate limit
FlickerUpdate_no_limit(e, now) ==
    IF e.dim = 0
    THEN Result(e, <<0>>, 0)
    ELSE LET lowpass == e.duty_cycle
             newval  == FlickerNewval(e.rnd_lfsr)
             filt    == lowpass - Shr(lowpass, 1) + Shl(newval, 7)
             duty    == Shr(filt, 6 - e.dim)
         IN  Result([e EXCEPT !.last_flicker = now,
                              !.duty_cycle = duty,
                              !.rnd_lfsr = LfsrAdvance(e.rnd_lfsr, 3)],
                    <<duty>>, duty)

\* Flicker.update
FlickerUpdate(e, now) ==
    IF now >= e.last_flicker + FLICKER_PERIOD
    THEN IF e.dim = 0
         THEN Result(e, <<0>>, 0)
         ELSE LET lowpass == e.duty_cycle
                  newval  == FlickerNewval(e.rnd_lfsr)
                  filt    == lowpass - Shr(lowpass, 1) + Shl(newval, 7)
                  duty    == Shr(filt, 6 - e.dim)
              IN  Result([e EXCEPT !.last_flicker = now,
                                   !.duty_cycle = duty,
                                   !.rnd_lfsr = LfsrAdvance(e.rnd_lfsr, 3)],
                         <<duty>>, duty)
    ELSE Result(e, <<>>, e.duty_cycle)

\* the exception update(now) raises on effect e, or "none": IndexError from
\* __linear_to_gamma[dim] (a list of 256 entries, indexable from -256 to
\* 255), ValueError from a shift by a negative amount
UpdateFault(e, now) ==
    IF e.kind = "dimmer"
    THEN LET writes_gamma ==
                 IF e.strobe = 0
                 THEN e.last_dim = None \/ e.last_dim # e.dim
                 ELSE /\ now >= e.last_transition_time + e.transition_period
                      /\ e.next_transition
         IN  IF writes_gamma /\ (e.dim > MAX_DIM \/ e.dim < -(MAX_DIM + 1))
             THEN "IndexError" ELSE "none"
    ELSE IF /\ now >= e.last_flicker + FLICKER_PERIOD
            /\ e.dim # 0
            /\ 6 - e.dim < 0
         THEN "ValueError" ELSE "none"

\* polymorphic dispatch: effect.enter() / effect.update(now)
EffectEnter(e) == IF e.kind = "dimmer" THEN DimmerEnter(e) ELSE e

EffectUpdate(e, now) ==
    IF e.kind = "dimmer" THEN DimmerUpdate(e, now) ELSE FlickerUpdate(e, now)


(***************************************************************************)
(* State                                                                   *)
(***************************************************************************)
VARIABLES
    state,                \* StateMachine.state: "none" or the active state's name
    effects,              \* [ambient, triggered]: each State's effects list
    ambient_wave,         \* ambient_state.wave != None (ambient_audio_exists)
    trigger_finish_time,  \* TriggeredState.trigger_finish_time, milliseconds
    i2s,                  \* the I2SOut: playing flag, bound track, loop mode
    pwm,                  \* duty cycle of output1 and output2
    now,                  \* last reading of time.monotonic_ns()
    mono,                 \* last reading of time.monotonic(), in milliseconds
    trigger_fell,         \* trigger.fell, as left by the last trigger.update()
    fault,                \* exception raised by the last call, or "none"
    entered,              \* names of the states whose enter() has no later exit()
    calls,                \* the calls made during the last step, in order
    fx,                   \* an effect driven directly through its own interface
    sink,                 \* the PWM output handed to fx
    ret,                  \* value returned by the last fx.update()
    hist                  \* observations of the calls made on fx

machineVars == <<state, effects, ambient_wave, trigger_finish_time, i2s, pwm,
                 mono, trigger_fell, fault, entered, calls>>

effectVars == <<fx, sink, ret, hist>>

vars == <<state, effects, ambient_wave, trigger_finish_time, i2s, pwm, now,
          mono, trigger_fell, fault, entered, calls, fx, sink, ret, hist>>

(***************************************************************************)
(* Bounds of the model                                                     *)
(***************************************************************************)
\* the clock is followed for this many flicker periods
MaxFrames == 2

MaxNow == MaxFrames * FLICKER_PERIOD

\* advances of the clock between two readings
ClockSteps == {0, 16666666, FLICKER_PERIOD}

ClockReadings == {t \in {now + d : d \in ClockSteps} : t <= MaxNow}

(***************************************************************************)
(* Configuration and construction (lines 465-572)                          *)
(***************************************************************************)
\* F applied to the value of x, which is computed once
Let(x, F(_)) == CHOOSE r \in {F(v) : v \in {x}} : TRUE

EffectConfig(effect, dim, strobe, seed) ==
    [effect |-> effect, dim |-> dim, strobe |-> strobe, seed |-> seed]

\* output1_config / output2_config before the configuration file is read
DefaultConfig == EffectConfig("dimmer", 0, 0, 21966)

\* if config['effect'] == 'dimmer': ... elif config['effect'] == 'flicker': ...
BuildEffect(out, cfg) ==
    IF cfg.effect = "dimmer"
    THEN <<DimmerSetStrobe(DimmerSetDim(Dimmer(out).eff, cfg.dim), cfg.strobe)>>
    ELSE IF cfg.effect = "flicker"
    THEN <<FlickerSetDim(Flicker(out, cfg.seed).eff, cfg.dim)>>
    ELSE <<>>

\* the keys that are looked at in a subtable of the configuration file, for
\* output 1 and output 2
KeyNames ==
    [effect |-> <<"effect1", "effect2">>,
     dim    |-> <<"effect1.dim", "effect2.dim">>,
     strobe |-> <<"effect1.strobe", "effect2.strobe">>,
     seed   |-> <<"effect1.seed", "effect2.seed">>]

Keys == {KeyNames[k][n] : k \in DOMAIN KeyNames, n \in 1..2}

\* a subtable: the keys it holds and the values cptoml.fetch returns for them
Unset(key) == IF key \in {"effect1", "effect2"} THEN "" ELSE 0

NoValues == [key \in Keys |-> Unset(key)]

Table(present, val) == [present |-> present, val |-> val]

EmptyTable == Table({}, NoValues)

\* a configuration file; found is FALSE when reading it raises OSError
File(found, ambient, triggered) ==
    [found |-> found, ambient |-> ambient, triggered |-> triggered]

\* output2_config of the triggered state starts with the seed 0x6c4a
DefaultConfig2(subtable) ==
    IF subtable = "triggered" THEN [DefaultConfig EXCEPT !.seed = 27722]
    ELSE DefaultConfig

\* the value of key n of output o after "for key in keys"
Fetched(tbl, k, o, default) ==
    IF KeyNames[k][o] \in tbl.present THEN tbl.val[KeyNames[k][o]]
    ELSE default[k]

OutputConfig(tbl, o, default) ==
    [k \in DOMAIN KeyNames |-> Fetched(tbl, k, o, default)]

\* try: ... for key in keys: ... except OSError (lines 474-497, 527-550).
\* In the triggered subtable the branch of 'effect1.strobe' assigns to the
\* undefined name output1_confic: NameError, which is not caught.
ReadConfig(file, subtable) ==
    IF ~file.found
    THEN [fault |-> "none", o1 |-> DefaultConfig,
          o2 |-> DefaultConfig2(subtable)]
    ELSE IF subtable = "triggered"
            /\ "effect1.strobe" \in file[subtable].present
    THEN [fault |-> "NameError", o1 |-> DefaultConfig,
          o2 |-> DefaultConfig2(subtable)]
    ELSE [fault |-> "none",
          o1 |-> OutputConfig(file[subtable], 1, DefaultConfig),
          o2 |-> OutputConfig(file[subtable], 2, DefaultConfig2(subtable))]

\* lines 465-572: the ambient state and its effects, then the triggered
\* state and its effects; an exception ends the program
Construct(file) ==
    Let(ReadConfig(file, "ambient"), LAMBDA a :
        Let(ReadConfig(file, "triggered"), LAMBDA t :
            [fault |-> t.fault,
             effects |->
                 [ambient   |-> BuildEffect(1, a.o1) \o BuildEffect(2, a.o2),
                  triggered |-> IF t.fault # "none" THEN <<>>
                                ELSE BuildEffect(1, t.o1)
                                         \o BuildEffect(2, t.o2)]]))

\* a subtable holding the given values for the given keys
TableWith(val) ==
    Table(DOMAIN val,
          [key \in Keys |-> IF key \in DOMAIN val THEN val[key]
                            ELSE Unset(key)])

\* the configuration files the program is started with
ConfigFiles ==
    { File(FALSE, EmptyTable, EmptyTable),
      File(TRUE,
           TableWith([key \in {"effect1.dim"} |-> 200]
                     @@ [key \in {"effect2"} |-> "flicker"]
                     @@ [key \in {"effect2.dim"} |-> 3]),
           TableWith([key \in {"effect1.dim"} |-> 255]
                     @@ [key \in {"effect2"} |-> "flicker"]
                     @@ [key \in {"effect2.dim"} |-> 5])),
      File(TRUE,
           TableWith([key \in {"effect1"} |-> "flicker"]
                     @@ [key \in {"effect2"} |-> "sparkle"]
                     @@ [key \in {"effect2.dim"} |-> 9]),
           TableWith([key \in {"effect1.dim"} |-> 100]
                     @@ [key \in {"effect2.dim"} |-> 300]
                     @@ [key \in {"effect2.strobe"} |-> 30])) }

\* state_machine.add_state(ambient_state); add_state(triggered_state)
states == {"ambient", "triggered"}

(***************************************************************************)
(* States and the state machine.  An operation maps the machine (a record  *)
(* of the variables it may touch) to the machine after the call.           *)
(***************************************************************************)
Ev(op, who, idx, val) == [op |-> op, who |-> who, idx |-> idx, val |-> val]

Machine ==
    [state |-> state, effects |-> effects, wave |-> ambient_wave,
     finish |-> trigger_finish_time, i2s |-> i2s, pwm |-> pwm, now |-> now,
     mono |-> mono, fault |-> "none", entered |-> entered, calls |-> <<>>]

Commit(m0) ==
    \E m \in {m0} :
        /\ state' = m.state
        /\ effects' = m.effects
        /\ ambient_wave' = m.wave
        /\ trigger_finish_time' = m.finish
        /\ i2s' = m.i2s
        /\ pwm' = m.pwm
        /\ now' = m.now
        /\ mono' = m.mono
        /\ fault' = m.fault
        /\ entered' = m.entered
        /\ calls' = m.calls

\* i2s.play(wave, loop=...)
I2sPlay(m, track, loop) ==
    [m EXCEPT !.i2s = [playing |-> TRUE, track |-> track, loop |-> loop],
              !.calls = @ \o <<Ev("play", track, 0, IF loop THEN 1 ELSE 0)>>]

\* i2s.stop()
I2sStop(m) ==
    [m EXCEPT !.i2s = [playing |-> FALSE, track |-> "none", loop |-> FALSE],
              !.calls = @ \o <<Ev("stop", "i2s", 0, 0)>>]

\* for effect in self.effects: effect.enter()
RECURSIVE EnterEffects(_, _, _)
EnterEffects(m0, name, i) ==
    Let(m0, LAMBDA m :
        IF i > Len(m.effects[name]) THEN m
        ELSE EnterEffects(
                 [m EXCEPT !.effects[name][i] = EffectEnter(@)], name, i + 1))

\* for effect in self.effects: effect.update(now=now)
RECURSIVE UpdateEffects(_, _, _)
UpdateEffects(m0, name, i) ==
    Let(m0, LAMBDA m :
        IF i > Len(m.effects[name]) THEN m
        ELSE Let(EffectUpdate(m.effects[name][i], m.now), LAMBDA r :
            LET out == m.effects[name][i].out
                w == [k \in 1..Len(r.wr) |-> Ev("write", name, out, r.wr[k])]
            IN  UpdateEffects(
                    [m EXCEPT !.effects[name][i] = r.eff,
                              !.pwm[out] =
                                  IF r.wr = <<>> THEN @ ELSE r.wr[Len(r.wr)],
                              !.calls = @ \o <<Ev("update", name, i, m.now)>>
                                          \o w],
                    name, i + 1)))

\* AmbientState.enter that plays the ambient track once (loop=False)
AmbientEnter_play_once(m0) ==
    Let([m0 EXCEPT !.calls = @ \o <<Ev("enter", "ambient", 0, 0)>>,
                   !.entered = @ \cup {"ambient"}],
        LAMBDA m :
            EnterEffects(IF m.wave THEN I2sPlay(m, "ambient", FALSE) ELSE m,
                         "ambient", 1))

\* AmbientState.enter
AmbientEnter(m0) ==
    Let([m0 EXCEPT !.calls = @ \o <<Ev("enter", "ambient", 0, 0)>>,
                   !.entered = @ \cup {"ambient"}],
        LAMBDA m :
            EnterEffects(IF m.wave THEN I2sPlay(m, "ambient", TRUE) ELSE m,
                         "ambient", 1))

\* AmbientState.exit (effect.exit() does nothing)
AmbientExit(m0) ==
    Let([m0 EXCEPT !.calls = @ \o <<Ev("exit", "ambient", 0, 0)>>,
                   !.entered = @ \ {"ambient"}],
        LAMBDA m : IF m.wave THEN I2sStop(m) ELSE m)

\* TriggeredState.enter; trigger_finish_time = time.monotonic() +
\* TRIGGER_DURATION, kept in milliseconds
TriggeredEnter(m0) ==
    Let([m0 EXCEPT !.calls = @ \o <<Ev("enter", "triggered", 0, 0)>>,
                   !.entered = @ \cup {"triggered"}],
        LAMBDA m :
            [EnterEffects(I2sPlay(m, "trigger", FALSE), "triggered", 1)
                EXCEPT !.finish =
                    m.mono + TRIGGER_DURATION * 1000])

\* TriggeredState.exit (playback is not stopped)
TriggeredExit(m) ==
    [m EXCEPT !.calls = @ \o <<Ev("exit", "triggered", 0, 0)>>,
              !.entered = @ \ {"triggered"}]

StateEnter(m, name) ==
    IF name = "ambient" THEN AmbientEnter(m) ELSE TriggeredEnter(m)

StateExit(m, name) ==
    IF name = "ambient" THEN AmbientExit(m) ELSE TriggeredExit(m)

\* go_to_state that forgets to exit the old state
go_to_state_no_exit(m0, state_name) ==
    Let(m0, LAMBDA m :
        IF state_name \notin states
        THEN [m EXCEPT !.fault = "KeyError"]
        ELSE StateEnter([m EXCEPT !.state = state_name], state_name))

\* go_to_state that looks the name up before it exits the old state
go_to_state_lookup_first(m0, state_name) ==
    Let(m0, LAMBDA m :
        IF state_name \notin states
        THEN [m EXCEPT !.fault = "KeyError"]
        ELSE StateEnter(
                 [(IF m.state # "none" THEN StateExit(m, m.state) ELSE m)
                     EXCEPT !.state = state_name],
                 state_name))

\* StateMachine.go_to_state; self.states[state_name] raises KeyError for a
\* name that was never added, after the old state's exit()
go_to_state(m0, state_name) ==
    Let(m0, LAMBDA m :
        Let(IF m.state # "none" THEN StateExit(m, m.state) ELSE m,
            LAMBDA m1 :
                IF state_name \notin states
                THEN [m1 EXCEPT !.fault = "KeyError"]
                ELSE StateEnter([m1 EXCEPT !.state = state_name], state_name)))

\* AmbientState.update that tests the trigger before it updates the effects
AmbientUpdate_trigger_first(m, fell) ==
    IF fell THEN go_to_state(m, "triggered")
    ELSE UpdateEffects(m, "ambient", 1)

\* AmbientState.update that updates the effects after the transition
AmbientUpdate_update_last(m, fell) ==
    Let(IF fell THEN go_to_state(m, "triggered") ELSE m, LAMBDA m1 :
        UpdateEffects(m1, "ambient", 1))

\* AmbientState.update
AmbientUpdate(m, fell) ==
    Let(UpdateEffects(m, "ambient", 1), LAMBDA m1 :
        IF fell THEN go_to_state(m1, "triggered") ELSE m1)

\* TriggeredState.update without the early return
TriggeredUpdate_no_return(m0) ==
    Let(m0, LAMBDA m :
        IF ~m.i2s.playing
        THEN go_to_state(UpdateEffects(m, "triggered", 1), "ambient")
        ELSE UpdateEffects(m, "triggered", 1))

\* TriggeredState.update with the playing test inverted
TriggeredUpdate_inverted(m0) ==
    Let(m0, LAMBDA m :
        IF m.i2s.playing
        THEN go_to_state(m, "ambient")
        ELSE UpdateEffects(m, "triggered", 1))

\* TriggeredState.update with the timed exit (lines 440-442) enabled
TriggeredUpdate_timed(m0) ==
    Let(m0, LAMBDA m :
        IF ~m.i2s.playing
        THEN go_to_state(m, "ambient")
        ELSE Let(UpdateEffects(m, "triggered", 1), LAMBDA m1 :
                 IF m1.mono >= m1.finish THEN go_to_state(m1, "ambient")
                 ELSE m1))

\* TriggeredState.update
TriggeredUpdate(m0) ==
    Let(m0, LAMBDA m :
        IF ~m.i2s.playing
        THEN go_to_state(m, "ambient")
        ELSE UpdateEffects(m, "triggered", 1))

\* StateMachine.update with a triggered state that restarts on a falling
\* edge
MachineUpdate_retrigger(m0, fell) ==
    Let(m0, LAMBDA m :
        IF m.state = "none" THEN m
        ELSE IF m.state = "ambient" THEN AmbientUpdate(m, fell)
        ELSE IF fell THEN go_to_state(m, "triggered")
        ELSE TriggeredUpdate(m))

\* StateMachine.update
MachineUpdate(m0, fell) ==
    Let(m0, LAMBDA m :
        IF m.state = "none" THEN m
        ELSE IF m.state = "ambient" THEN AmbientUpdate(m, fell)
        ELSE TriggeredUpdate(m))

(***************************************************************************)
(* The program: construction, the initial transition, the super-loop       *)
(***************************************************************************)
\* fx, sink, ret, hist are not used by the program
IdleEffect ==
    /\ fx = Dimmer(1).eff
    /\ sink = 0
    /\ ret = None
    /\ hist = [op |-> "none"]

\* the program after lines 1-601, when no exception has ended it
InitWith(files) ==
    /\ state = "none"
    /\ \E file \in files :
           /\ Construct(file).fault = "none"
           /\ effects = Construct(file).effects
    /\ ambient_wave \in BOOLEAN
    /\ trigger_finish_time = 0
    /\ i2s = [playing |-> FALSE, track |-> "none", loop |-> FALSE]
    /\ pwm = [o \in 1..2 |-> 0]
    /\ now = 0
    /\ mono = 0
    /\ trigger_fell = FALSE
    /\ fault = "none"
    /\ entered = {}
    /\ calls = <<>>
    /\ IdleEffect

Init == InitWith(ConfigFiles)

\* state_machine.go_to_state('ambient')  (line 602)
Startup ==
    /\ state = "none"
    /\ Commit(go_to_state(Machine, "ambient"))
    /\ UNCHANGED trigger_fell
    /\ UNCHANGED effectVars

\* the two readings of the clock at nanosecond t
At(m, t) == [m EXCEPT !.now = t, !.mono = t \div 1000000]

\* one iteration of "while True": trigger.update(); state_machine.update()
Tick(t, fell) ==
    /\ state # "none"
    /\ trigger_fell' = fell
    /\ Commit(MachineUpdate(At(Machine, t), fell))
    /\ UNCHANGED effectVars

\* the one-shot track reaches its end: i2s.playing turns False
PlaybackFinish ==
    /\ i2s.playing
    /\ ~i2s.loop
    /\ i2s' = [i2s EXCEPT !.playing = FALSE]
    /\ calls' = <<>>
    /\ UNCHANGED <<state, effects, ambient_wave, trigger_finish_time, pwm, now,
                   mono, trigger_fell, fault, entered>>
    /\ UNCHANGED effectVars

Loop == \E t \in ClockReadings, fell \in BOOLEAN : Tick(t, fell)

Next ==
    \/ Startup
    \/ Loop
    \/ PlaybackFinish

Spec == Init /\ [][Next]_vars

\* the super-loop never stops iterating, and a one-shot track ends
LiveSpec == Spec /\ WF_vars(Loop) /\ WF_vars(PlaybackFinish)

(***************************************************************************)
(* The program followed over seconds, past TRIGGER_DURATION.  Its          *)
(* configurations have steady Dimmers only, whose update() never looks at  *)
(* its timestamp, so that only the reading of time.monotonic() is          *)
(* followed.                                                               *)
(***************************************************************************)
\* the clock is followed for this many seconds
MaxSeconds == 8

\* time.monotonic() at a loop iteration, in milliseconds
LongReadings == {t \in {mono + d : d \in {500, 2500}} : t <= MaxSeconds * 1000}

LongFiles ==
    { File(FALSE, EmptyTable, EmptyTable),
      File(TRUE,
           TableWith([key \in {"effect1.dim"} |-> 200]
                     @@ [key \in {"effect2"} |-> "sparkle"]),
           TableWith([key \in {"effect1.dim"} |-> 100]
                     @@ [key \in {"effect2.dim"} |-> 255])) }

InitLong == InitWith(LongFiles)

LongTick(ms, fell) ==
    /\ state # "none"
    /\ trigger_fell' = fell
    /\ Commit(MachineUpdate([Machine EXCEPT !.mono = ms], fell))
    /\ UNCHANGED effectVars

LongLoop == \E ms \in LongReadings, fell \in BOOLEAN : LongTick(ms, fell)

NextLong ==
    \/ Startup
    \/ LongLoop
    \/ PlaybackFinish

SpecLong == InitLong /\ [][NextLong]_vars

(***************************************************************************)
(* The state machine driven through its interface: any go_to_state(name),  *)
(* registered or not, and update() at any time                             *)
(***************************************************************************)
Names == states \cup {"attract"}

\* the interface is exercised over this many flicker periods
MaxApiFrames == 2

ApiReadings ==
    {t \in {now, now + FLICKER_PERIOD} : t <= MaxApiFrames * FLICKER_PERIOD}

ApiGoToState(name, t) ==
    /\ Commit(go_to_state(At(Machine, t), name))
    /\ UNCHANGED trigger_fell
    /\ UNCHANGED effectVars

ApiUpdate(t, fell) ==
    /\ trigger_fell' = fell
    /\ Commit(MachineUpdate(At(Machine, t), fell))
    /\ UNCHANGED effectVars

ApiCall ==
    \/ \E name \in Names, t \in ApiReadings : ApiGoToState(name, t)
    \/ \E t \in ApiReadings, fell \in BOOLEAN : ApiUpdate(t, fell)

NextApi ==
    \/ ApiCall
    \/ PlaybackFinish

SpecApi == Init /\ [][NextApi]_vars

(***************************************************************************)
(* A Dimmer driven through its own interface: the setters, enter() and     *)
(* update(now) with increasing timestamps, in any order.  hist records     *)
(* what an observer of the calls and of the PWM output sees.               *)
(***************************************************************************)
\* the clock is followed for this many half-milliseconds
MaxStrobeSpans == 3

MaxDimmerNow == MaxStrobeSpans * 500000

\* intervals between two update() calls: two shorter than a strobe period,
\* one longer than two periods of the 1400 Hz strobe
DimmerSteps == {100000, 150000, 800000}

DimmerReadings == {t \in {now + d : d \in DimmerSteps} : t <= MaxDimmerNow}

\* arguments of the dim setter
DimArgs == {-5, 1, 200, 300}

\* the machine is not used while an effect is driven on its own
IdleMachine ==
    /\ state = "none"
    /\ effects = [ambient |-> <<>>, triggered |-> <<>>]
    /\ ambient_wave = FALSE
    /\ trigger_finish_time = 0
    /\ i2s = [playing |-> FALSE, track |-> "none", loop |-> FALSE]
    /\ pwm = [o \in 1..2 |-> 0]
    /\ mono = 0
    /\ trigger_fell = FALSE
    /\ fault = "none"
    /\ entered = {}
    /\ calls = <<>>

\* what is seen of a Dimmer since its last enter()
Fresh(op, is_entered) ==
    [op |-> op, wrote |-> <<>>, entered |-> is_entered, first |-> FALSE,
     fresh |-> is_entered, dim_changed |-> FALSE, last_written_dim |-> None,
     updates |-> 0, writes |-> 0, toggles |-> 0, first_toggle |-> None,
     last_toggle |-> None, on_time |-> TRUE]

\* effect = Dimmer(output1); effect.dim = ...; effect.strobe = ...
InitDimmer ==
    /\ IdleMachine
    /\ now = 0
    /\ \E d \in {0, 200}, f \in {0, 1000, 1400} :
           fx = DimmerSetStrobe(DimmerSetDim(Dimmer(1).eff, d), f)
    /\ sink = 0
    /\ ret = None
    /\ hist = Fresh("init", FALSE)

DimmerCallEnter ==
    /\ fx' = DimmerEnter(fx)
    /\ hist' = Fresh("enter", TRUE)
    /\ UNCHANGED <<sink, ret, now>>
    /\ UNCHANGED machineVars

DimmerCallSetDim(value) ==
    /\ fx' = DimmerSetDim(fx, value)
    /\ hist' = [hist EXCEPT !.op = "dim", !.wrote = <<>>, !.first = FALSE,
                            !.dim_changed = @ \/ fx'.dim # fx.dim]
    /\ UNCHANGED <<sink, ret, now>>
    /\ UNCHANGED machineVars

\* while strobing a write is a toggle: its time and whether it came exactly
\* one period after the toggle before it
ObserveToggle(h, t, period) ==
    [h EXCEPT !.toggles = @ + 1,
              !.first_toggle = IF h.toggles = 0 THEN t ELSE @,
              !.last_toggle = t,
              !.on_time = @ /\ (h.toggles = 0 \/ t = h.last_toggle + period)]

DimmerCallUpdate(t) ==
    \E r \in {DimmerUpdate(fx, t)} :
        /\ fx' = r.eff
        /\ sink' = IF r.wr = <<>> THEN sink ELSE r.wr[Len(r.wr)]
        /\ ret' = r.ret
        /\ now' = t
        /\ hist' =
               LET h1 == [hist EXCEPT
                              !.op = "update", !.wrote = r.wr,
                              !.first = hist.fresh, !.fresh = FALSE,
                              !.updates = IF @ < 3 THEN @ + 1 ELSE @,
                              !.writes = @ + Len(r.wr),
                              !.last_written_dim =
                                  IF r.wr = <<>> THEN @ ELSE fx.dim]
               IN  IF fx.strobe > 0 /\ hist.entered /\ r.wr # <<>>
                   THEN ObserveToggle(h1, t, fx.transition_period)
                   ELSE h1
        /\ UNCHANGED machineVars

NextDimmer ==
    \/ DimmerCallEnter
    \/ \E value \in DimArgs : DimmerCallSetDim(value)
    \/ \E t \in DimmerReadings : DimmerCallUpdate(t)

SpecDimmer == InitDimmer /\ [][NextDimmer]_vars

(***************************************************************************)
(* A Flicker driven through its own interface: the dim setter and          *)
(* update(now) with increasing timestamps.  enter() and exit() are the     *)
(* inherited ones and do nothing.                                          *)
(***************************************************************************)
\* the clock is followed for this many flicker periods
MaxFlickerFrames == 3

FlickerReadings ==
    {t \in {now + d : d \in {16666666, FLICKER_PERIOD}} :
        t <= MaxFlickerFrames * FLICKER_PERIOD}

\* 0x55ce and 0x6c4a (the program's seeds), the smallest and the largest seed
FlickerSeeds == {21966, 27722, 1, 65535}

\* arguments of the dim setter
FlickerDimArgs == {-1, 0, 3, 9}

\* effect = Flicker(output1, seed); effect.dim = ...
InitFlickerWith(seeds, dims) ==
    /\ IdleMachine
    /\ now = 0
    /\ \E seed \in seeds, d \in dims :
           /\ fx = FlickerSetDim(Flicker(1, seed).eff, d)
           /\ hist = [op |-> "init", seed |-> seed, updates |-> 0]
    /\ sink = 0
    /\ ret = None

InitFlicker == InitFlickerWith(FlickerSeeds, {0, 3, 5})

FlickerCallSetDim(value) ==
    /\ fx' = FlickerSetDim(fx, value)
    /\ hist' = [hist EXCEPT !.op = "dim"]
    /\ UNCHANGED <<sink, ret, now>>
    /\ UNCHANGED machineVars

FlickerCallUpdate(t) ==
    \E r \in {FlickerUpdate(fx, t)} :
        /\ fx' = r.eff
        /\ sink' = IF r.wr = <<>> THEN sink ELSE r.wr[Len(r.wr)]
        /\ ret' = r.ret
        /\ now' = t
        /\ hist' = [hist EXCEPT !.op = "update",
                                !.updates = IF @ < 3 THEN @ + 1 ELSE @]
        /\ UNCHANGED machineVars

NextFlicker ==
    \/ \E value \in FlickerDimArgs : FlickerCallSetDim(value)
    \/ \E t \in FlickerReadings : FlickerCallUpdate(t)

SpecFlicker == InitFlicker /\ [][NextFlicker]_vars

(***************************************************************************)
(* An effect of either kind whose setters are called with any integers,    *)
(* between updates.  fault records the exception an update() raises; the   *)
(* program stops there.                                                    *)
(***************************************************************************)
\* the clock is followed for this many flicker periods
MaxSetterFrames == 3

SetterReadings ==
    {t \in {now + FLICKER_PERIOD} : t <= MaxSetterFrames * FLICKER_PERIOD}

\* arguments of the setters: below, at and above the limits
SetterArgs == {-300, -1, 0, 4, 5, 6, 255, 256, 1400, 1401, 70000}

\* the variables of the machine but fault
restVars == <<state, effects, ambient_wave, trigger_finish_time, i2s, pwm,
              mono, trigger_fell, entered, calls>>

InitSetters ==
    /\ IdleMachine
    /\ now = 0
    /\ fx \in {Dimmer(1).eff, Flicker(1, 21966).eff}
    /\ sink = 0
    /\ ret = None
    /\ hist = [op |-> "init", wrote |-> <<>>, clamped |-> FALSE]

\* effect.dim = value
SetterCallDim(value) ==
    /\ fault = "none"
    /\ fx' = IF fx.kind = "dimmer" THEN DimmerSetDim(fx, value)
             ELSE FlickerSetDim(fx, value)
    /\ hist' = [op |-> "dim", wrote |-> <<>>,
                clamped |-> value > (IF fx.kind = "dimmer" THEN MAX_DIM
                                     ELSE MAX_FLICKER_DIM)]
    /\ UNCHANGED <<sink, ret, now, fault>>
    /\ UNCHANGED restVars

\* effect.strobe = frequency
SetterCallStrobe(frequency) ==
    /\ fault = "none"
    /\ fx.kind = "dimmer"
    /\ fx' = DimmerSetStrobe(fx, frequency)
    /\ hist' = [hist EXCEPT !.op = "strobe", !.wrote = <<>>]
    /\ UNCHANGED <<sink, ret, now, fault>>
    /\ UNCHANGED restVars

\* effect.enter()
SetterCallEnter ==
    /\ fault = "none"
    /\ fx' = EffectEnter(fx)
    /\ hist' = [hist EXCEPT !.op = "enter", !.wrote = <<>>]
    /\ UNCHANGED <<sink, ret, now, fault>>
    /\ UNCHANGED restVars

\* effect.update(now=t)
SetterCallUpdate(t) ==
    /\ fault = "none"
    /\ now' = t
    /\ IF UpdateFault(fx, t) # "none"
       THEN /\ fault' = UpdateFault(fx, t)
            /\ hist' = [hist EXCEPT !.op = "update", !.wrote = <<>>]
            /\ UNCHANGED <<fx, sink, ret>>
       ELSE \E r \in {EffectUpdate(fx, t)} :
                /\ fx' = r.eff
                /\ sink' = IF r.wr = <<>> THEN sink ELSE r.wr[Len(r.wr)]
                /\ ret' = r.ret
                /\ hist' = [hist EXCEPT !.op = "update", !.wrote = r.wr]
                /\ UNCHANGED fault
    /\ UNCHANGED restVars

NextSetters ==
    \/ \E value \in SetterArgs : SetterCallDim(value)
    \/ \E frequency \in SetterArgs : SetterCallStrobe(frequency)
    \/ SetterCallEnter
    \/ \E t \in SetterReadings : SetterCallUpdate(t)

SpecSetters == InitSetters /\ [][NextSetters]_vars

(***************************************************************************)
(* The LFSR from every nonzero 16-bit seed: a Flicker that is rendered on  *)
(* every update                                                            *)
(***************************************************************************)
\* number of renderings followed from each seed
MaxLfsrFrames == 2

LfsrSeeds == 1..65535

InitLfsr == InitFlickerWith(LfsrSeeds, {1, 5})

NextLfsr ==
    \E t \in {now + FLICKER_PERIOD} :
        /\ t <= MaxLfsrFrames * FLICKER_PERIOD
        /\ FlickerCallUpdate(t)

SpecLfsr == InitLfsr /\ [][NextLfsr]_vars

(***************************************************************************)
(* Start of the program from a configuration file: construction (lines     *)
(* 465-572), then the initial transition.  hist holds the file.            *)
(***************************************************************************)
\* the values a file gives to the keys of one output
FileValues(kind) == [effect |-> kind, dim |-> 3, strobe |-> 15, seed |-> 4660]

\* a subtable that holds the keys K of output o
TableOf(o, K, kind) ==
    Table({KeyNames[k][o] : k \in K},
          [key \in Keys |->
              IF \E k \in K : KeyNames[k][o] = key
              THEN FileValues(kind)[CHOOSE k \in K : KeyNames[k][o] = key]
              ELSE Unset(key)])

\* files with any subset of the keys of one output in one subtable
BootFiles ==
    {File(FALSE, EmptyTable, EmptyTable)}
    \cup {File(TRUE, TableOf(o, K, kind), EmptyTable) :
              o \in 1..2, K \in SUBSET DOMAIN KeyNames,
              kind \in {"dimmer", "flicker"}}
    \cup {File(TRUE, EmptyTable, TableOf(o, K, kind)) :
              o \in 1..2, K \in SUBSET DOMAIN KeyNames,
              kind \in {"dimmer", "flicker"}}

InitConfig ==
    /\ IdleMachine
    /\ now = 0
    /\ fx = Dimmer(1).eff
    /\ sink = 0
    /\ ret = None
    /\ \E file \in BootFiles : hist = [op |-> "boot", file |-> file]

\* lines 465-572
ConfigConstruct ==
    /\ hist.op = "boot"
    /\ effects' = Construct(hist.file).effects
    /\ fault' = Construct(hist.file).fault
    /\ hist' = [hist EXCEPT !.op = "constructed"]
    /\ UNCHANGED <<state, ambient_wave, trigger_finish_time, i2s, pwm, now,
                   mono, trigger_fell, entered, calls, fx, sink, ret>>

\* line 602, reached when no exception has ended the program
ConfigStartup ==
    /\ hist.op = "constructed"
    /\ fault = "none"
    /\ Startup

NextConfig ==
    \/ ConfigConstruct
    \/ ConfigStartup

SpecConfig == InitConfig /\ [][NextConfig]_vars

(***************************************************************************)
(* Observations on the call log                                            *)
(***************************************************************************)
IsLifecycle(e) == e.op \in {"enter", "exit"}

IsUpdate(e) == e.op = "update"

IsNotWrite(e) == e.op # "write"

\* the enter()/exit() calls on states, in order
Lifecycle(log) == SelectSeq(log, IsLifecycle)

\* the update() calls on effects, in order
Updates(log) == SelectSeq(log, IsUpdate)

\* every call but the writes to the PWM outputs
Calls(log) == SelectSeq(log, IsNotWrite)

\* update(now=t) on every effect of state name, in list order
UpdateAll(name, t) ==
    [i \in 1..Len(effects[name]) |-> Ev("update", name, i, t)]

(***************************************************************************)
(* C1: every go_to_state(name) with a registered name calls exit() on the  *)
(* previously active state (if any) before enter() on the new one, so at   *)
(* most one state is entered at any time; from ambient,                    *)
(* go_to_state('triggered') makes exactly the calls ambient.exit(),        *)
(* triggered.enter().                                                      *)
(***************************************************************************)
AtMostOneEntered == Cardinality(entered) <= 1

ExitBeforeEnter ==
    LET L == Lifecycle(calls')
    IN  /\ L # <<>> =>
              \/ state = "none" /\ L = <<Ev("enter", state', 0, 0)>>
              \/ /\ state # "none"
                 /\ L = <<Ev("exit", state, 0, 0), Ev("enter", state', 0, 0)>>
              \/ /\ state # "none"
                 /\ fault' # "none"
                 /\ L = <<Ev("exit", state, 0, 0)>>
        /\ \A name \in states, t \in ApiReadings :
              ApiGoToState(name, t) =>
                  /\ state' = name
                  /\ entered' = {name}
                  /\ L = (IF state = "none" THEN <<>>
                          ELSE <<Ev("exit", state, 0, 0)>>)
                         \o <<Ev("enter", name, 0, 0)>>

C1_ExitBeforeEnter == []AtMostOneEntered /\ [][ExitBeforeEnter]_vars

\* go_to_state('triggered') was called while ambient was active
C1_Witness ==
    /\ state = "triggered"
    /\ entered = {"triggered"}
    /\ Updates(calls) = <<>>
    /\ Lifecycle(calls) =
           <<Ev("exit", "ambient", 0, 0), Ev("enter", "triggered", 0, 0)>>

(***************************************************************************)
(* C2: while ambient is active, a tick with a falling edge first updates   *)
(* every ambient effect with the tick's timestamp and then runs            *)
(* ambient.exit() (i2s.stop() only if an ambient track is bound) and       *)
(* triggered.enter(), which plays the trigger track without looping; a     *)
(* tick without a falling edge leaves ambient active.                      *)
(***************************************************************************)
AmbientTick ==
    \A t \in ClockReadings, fell \in BOOLEAN :
        (state = "ambient" /\ Tick(t, fell)) =>
            IF fell
            THEN /\ Calls(calls') =
                        UpdateAll("ambient", t)
                        \o <<Ev("exit", "ambient", 0, 0)>>
                        \o (IF ambient_wave THEN <<Ev("stop", "i2s", 0, 0)>>
                            ELSE <<>>)
                        \o <<Ev("enter", "triggered", 0, 0),
                             Ev("play", "trigger", 0, 0)>>
                 /\ state' = "triggered"
                 /\ i2s' = [playing |-> TRUE, track |-> "trigger",
                            loop |-> FALSE]
            ELSE /\ state' = "ambient"
                 /\ Calls(calls') = UpdateAll("ambient", t)

C2_AmbientTick == [][AmbientTick]_vars

\* a falling edge was seen on an ambient tick that updated an effect
C2_Witness ==
    /\ state = "triggered"
    /\ Updates(calls) # <<>>
    /\ i2s.playing /\ ~i2s.loop

(***************************************************************************)
(* C3: while triggered is active, a tick on which playback is not playing  *)
(* goes to ambient (triggered.exit() then ambient.enter()) and updates no  *)
(* effect; a tick on which it is playing updates every triggered effect    *)
(* and leaves triggered active.                                            *)
(***************************************************************************)
TriggeredTick ==
    \A t \in ClockReadings, fell \in BOOLEAN :
        (state = "triggered" /\ Tick(t, fell)) =>
            IF ~i2s.playing
            THEN /\ state' = "ambient"
                 /\ Updates(calls') = <<>>
                 /\ effects'.triggered = effects.triggered
                 /\ Lifecycle(calls') = <<Ev("exit", "triggered", 0, 0),
                                          Ev("enter", "ambient", 0, 0)>>
            ELSE /\ state' = "triggered"
                 /\ Calls(calls') = UpdateAll("triggered", t)

C3_TriggeredTick == [][TriggeredTick]_vars

\* triggered was left on a tick after the playback had ended
C3_Witness ==
    /\ state = "ambient"
    /\ Lifecycle(calls) =
           <<Ev("exit", "triggered", 0, 0), Ev("enter", "ambient", 0, 0)>>

(***************************************************************************)
(* C4: if the loop keeps iterating and every one-shot playback ends, the   *)
(* machine always returns from triggered to ambient.                       *)
(***************************************************************************)
C4_TriggeredReturns == (state = "triggered") ~> (state = "ambient")

\* triggered is active and its playback has ended
C4_Witness == state = "triggered" /\ ~i2s.playing /\ now > 0

(***************************************************************************)
(* C5: go_to_state(name) with an unregistered name raises without calling  *)
(* enter() on any state and leaves StateMachine.state as it was; the state *)
(* that was active has already received exit().                            *)
(***************************************************************************)
UnknownName ==
    \A name \in Names \ states, t \in ApiReadings :
        ApiGoToState(name, t) =>
            /\ fault' = "KeyError"
            /\ state' = state
            /\ \A k \in 1..Len(calls') : calls'[k].op # "enter"
            /\ state # "none" =>
                   /\ Lifecycle(calls') = <<Ev("exit", state, 0, 0)>>
                   /\ state \notin entered'

C5_UnknownName == [][UnknownName]_vars

\* an unregistered name was requested while ambient was active
C5_Witness ==
    /\ fault = "KeyError"
    /\ state = "ambient"
    /\ entered = {}
    /\ Lifecycle(calls) = <<Ev("exit", "ambient", 0, 0)>>

(***************************************************************************)
(* C6: a Dimmer with strobe = 0, after enter(): the first update() writes  *)
(* gamma(dim); afterwards an update() writes exactly when dim differs from *)
(* the dim last written, and what it writes is gamma(dim).  With dim left  *)
(* alone, any number of updates after enter() make exactly one write.      *)
(***************************************************************************)
SteadyUpdate ==
    \A t \in DimmerReadings :
        (hist.entered /\ fx.strobe = 0 /\ DimmerCallUpdate(t)) =>
            /\ hist'.wrote # <<>> <=>
                   (hist.last_written_dim = None
                        \/ fx.dim # hist.last_written_dim)
            /\ hist.fresh => hist'.wrote # <<>>
            /\ hist'.wrote # <<>> =>
                   /\ hist'.wrote = <<linear_to_gamma(fx.dim)>>
                   /\ sink' = linear_to_gamma(fx.dim)

OneWritePerDim ==
    (hist.entered /\ fx.strobe = 0 /\ ~hist.fresh /\ ~hist.dim_changed) =>
        /\ hist.writes = 1
        /\ sink = linear_to_gamma(fx.dim)

C6_WriteOncePerDim == []OneWritePerDim /\ [][SteadyUpdate]_vars

\* enter() and three updates with dim = 200: one write, of gamma(200)
C6_Witness ==
    /\ hist.entered /\ fx.strobe = 0 /\ fx.dim = 200
    /\ ~hist.dim_changed
    /\ hist.updates = 3
    /\ hist.writes = 1
    /\ sink = 38402

(***************************************************************************)
(* C7 as stated: a Dimmer with strobe f > 0 updated on every tick after    *)
(* enter() toggles exactly N times in a span of N transition periods: at   *)
(* every update, the toggles after the first number                        *)
(* (now - first toggle) div transition_period.                             *)
(***************************************************************************)
Strobing == hist.entered /\ fx.strobe > 0 /\ hist.toggles >= 1

C7_ExactlyNToggles ==
    Strobing =>
        hist.toggles - 1 = (now - hist.first_toggle) \div fx.transition_period

(***************************************************************************)
(* C7 as amended: in a span of N transition periods that starts at a       *)
(* toggle there are at most N further toggles, and exactly N when every    *)
(* toggle comes exactly one period after the one before; toggles write     *)
(* gamma(dim) and 0 in turn, starting with gamma(dim); two consecutive     *)
(* toggles are at least one period apart, and more than one period only by *)
(* less than the interval between the toggling update and the update       *)
(* before it.                                                              *)
(***************************************************************************)
AtMostNToggles ==
    Strobing =>
        /\ hist.toggles - 1 <=
               (now - hist.first_toggle) \div fx.transition_period
        /\ hist.on_time =>
               hist.toggles - 1 =
                   (now - hist.first_toggle) \div fx.transition_period

StrobeUpdate ==
    \A t \in DimmerReadings :
        (hist.entered /\ fx.strobe > 0 /\ DimmerCallUpdate(t)) =>
            /\ Len(hist'.wrote) <= 1
            /\ hist'.wrote # <<>> =>
                   /\ hist'.wrote = <<IF hist.toggles % 2 = 0
                                      THEN linear_to_gamma(fx.dim) ELSE 0>>
                   /\ hist.toggles >= 1 =>
                          /\ t - hist.last_toggle >= fx.transition_period
                          /\ t - hist.last_toggle - fx.transition_period
                                 < t - now

C7_StrobeToggles == []AtMostNToggles /\ [][StrobeUpdate]_vars

\* three toggles, one of them later than one period after the one before
C7_Witness ==
    /\ Strobing
    /\ hist.toggles >= 3
    /\ ~hist.on_time

(***************************************************************************)
(* C8 as stated: after enter() on a Dimmer with strobe > 0 the very next   *)
(* update(now) flips into the on phase and writes gamma(dim), whatever now *)
(* is.                                                                     *)
(***************************************************************************)
C8_FirstUpdateTurnsOn ==
    (hist.op = "update" /\ hist.first /\ fx.strobe > 0) =>
        /\ hist.wrote = <<linear_to_gamma(fx.dim)>>
        /\ sink = linear_to_gamma(fx.dim)
        /\ ~fx.next_transition

(***************************************************************************)
(* C9 as stated: every update() of a Flicker whose dim is 0 returns 0 and  *)
(* leaves the PWM output at 0.                                             *)
(***************************************************************************)
C9_ZeroDimIsDark ==
    (hist.op = "update" /\ fx.kind = "flicker" /\ fx.dim = 0) =>
        /\ ret = 0
        /\ sink = 0

(***************************************************************************)
(* C10: from any seed in 1..65535 the LFSR state stays in 1..65535 after   *)
(* any number of update() calls.                                           *)
(***************************************************************************)
C10_LfsrNonzero16Bit ==
    fx.kind = "flicker" => fx.rnd_lfsr \in 1..65535

\* two renderings have advanced the register
C10_Witness ==
    /\ fx.kind = "flicker"
    /\ hist.updates = 2
    /\ fx.last_flicker = 2 * FLICKER_PERIOD
    /\ fx.rnd_lfsr # hist.seed
    /\ fx.rnd_lfsr \in 1..65535

(***************************************************************************)
(* C11 as stated: the second of two consecutive Flicker.update() calls     *)
(* whose timestamps are less than 33,333,333 ns apart changes neither the  *)
(* stored duty cycle, nor the LFSR state, nor the last-update time.        *)
(***************************************************************************)
ConsecutiveCalls ==
    \A t \in FlickerReadings :
        (hist.op = "update" /\ t - now < FLICKER_PERIOD
             /\ FlickerCallUpdate(t)) =>
            /\ fx'.duty_cycle = fx.duty_cycle
            /\ fx'.rnd_lfsr = fx.rnd_lfsr
            /\ fx'.last_flicker = fx.last_flicker

C11_ConsecutiveCalls == [][ConsecutiveCalls]_vars

(***************************************************************************)
(* C11 as amended: a Flicker.update(now) call less than 33,333,333 ns      *)
(* after the last rendering (last_flicker, which only a rendering update   *)
(* with dim in 1..5 sets) changes nothing in the effect, writes nothing    *)
(* and returns the stored duty cycle, for every dim in 0..5; so the second *)
(* of two consecutive calls less than 33,333,333 ns apart changes nothing  *)
(* when the first one rendered.  A call at least 33,333,333 ns after the   *)
(* last rendering renders when dim is in 1..5, however short the time      *)
(* since the call before it.                                               *)
(***************************************************************************)
RateLimit ==
    \A t \in FlickerReadings :
        FlickerCallUpdate(t) =>
            /\ fx.dim \in 0..MAX_FLICKER_DIM
            /\ t < fx.last_flicker + FLICKER_PERIOD =>
                   /\ fx' = fx
                   /\ sink' = sink
                   /\ ret' = fx.duty_cycle
            /\ (hist.op = "update" /\ fx.last_flicker = now /\ now > 0
                    /\ t - now < FLICKER_PERIOD) =>
                   /\ fx'.duty_cycle = fx.duty_cycle
                   /\ fx'.rnd_lfsr = fx.rnd_lfsr
                   /\ fx'.last_flicker = fx.last_flicker
            /\ (t >= fx.last_flicker + FLICKER_PERIOD /\ fx.dim > 0) =>
                   /\ fx'.last_flicker = t
                   /\ fx'.rnd_lfsr # fx.rnd_lfsr

C11_RateLimit == [][RateLimit]_vars

\* an update came less than a period after a rendering and changed nothing
C11_Witness ==
    /\ hist.op = "update"
    /\ fx.kind = "flicker" /\ fx.dim > 0
    /\ fx.last_flicker > 0
    /\ now > fx.last_flicker
    /\ now < fx.last_flicker + FLICKER_PERIOD
    /\ ret = fx.duty_cycle

(***************************************************************************)
(* C12: after any setter calls with any integer arguments a Dimmer's dim   *)
(* is in 0..255 and its strobe in 0..1400, a Flicker's dim is in 0..5; no  *)
(* update() raises; every value written to the PWM output, and the         *)
(* Flicker's stored duty cycle, is in 0..65535.                            *)
(***************************************************************************)
C12_ClampedNoFault ==
    /\ fault = "none"
    /\ fx.kind = "dimmer" =>
           /\ fx.dim \in 0..MAX_DIM
           /\ fx.strobe \in 0..MAX_STROBE
           /\ fx.strobe > 0 => fx.transition_period = 500000000 \div fx.strobe
    /\ fx.kind = "flicker" =>
           /\ fx.dim \in 0..MAX_FLICKER_DIM
           /\ fx.duty_cycle \in 0..65535
    /\ sink \in 0..65535
    /\ \A k \in 1..Len(hist.wrote) : hist.wrote[k] \in 0..65535

\* dim was set above 255 and the update that followed wrote gamma(255)
C12_Witness ==
    /\ fx.kind = "dimmer"
    /\ hist.op = "update"
    /\ hist.clamped
    /\ fx.dim = MAX_DIM
    /\ hist.wrote = <<65535>>
    /\ fault = "none"

(***************************************************************************)
(* C13: triggered is left only on a tick on which i2s.playing is False,    *)
(* and then for ambient; a tick on which it is playing leaves triggered    *)
(* active, before and after trigger_finish_time, the time of               *)
(* triggered.enter() plus TRIGGER_DURATION.                                *)
(***************************************************************************)
LeavesOnPlaybackEnd ==
    /\ (state = "triggered" /\ state' # "triggered") =>
           /\ ~i2s.playing
           /\ state' = "ambient"
    /\ \A ms \in LongReadings, fell \in BOOLEAN :
           (state = "triggered" /\ LongTick(ms, fell)) =>
               (state' = "triggered" <=> i2s.playing)
    /\ (state # "triggered" /\ state' = "triggered") =>
           trigger_finish_time' = mono' + TRIGGER_DURATION * 1000
    /\ (state = "triggered" /\ state' = "triggered") =>
           trigger_finish_time' = trigger_finish_time

C13_PlaybackEndsTriggered == [][LeavesOnPlaybackEnd]_vars

\* a tick after trigger_finish_time, playback still playing: triggered stays
C13_Witness ==
    /\ state = "triggered"
    /\ i2s.playing
    /\ mono > trigger_finish_time
    /\ trigger_finish_time >= TRIGGER_DURATION * 1000
    /\ Updates(calls) # <<>>

(***************************************************************************)
(* C14: one update(now) of a Dimmer with strobe > 0 flips the phase        *)
(* exactly once when now >= last_transition_time + transition_period,      *)
(* however many periods have passed, and not at all otherwise; a flip      *)
(* writes gamma(dim) when it enters the on phase and 0 when it enters the  *)
(* off phase, and records now as the transition time.                      *)
(***************************************************************************)
NoCatchUp ==
    \A t \in DimmerReadings :
        (fx.strobe > 0 /\ DimmerCallUpdate(t)) =>
            IF t >= fx.last_transition_time + fx.transition_period
            THEN /\ fx'.next_transition = ~fx.next_transition
                 /\ fx'.last_transition_time = t
                 /\ hist'.wrote = <<IF fx.next_transition
                                    THEN linear_to_gamma(fx.dim) ELSE 0>>
                 /\ sink' = hist'.wrote[1]
                 /\ fx'.dim = fx.dim /\ fx'.strobe = fx.strobe
                 /\ fx'.transition_period = fx.transition_period
            ELSE /\ fx' = fx
                 /\ hist'.wrote = <<>>
                 /\ sink' = sink

C14_NoCatchUp == [][NoCatchUp]_vars

\* the second toggle came more than two periods after the first
C14_Witness ==
    /\ hist.entered /\ fx.strobe > 0
    /\ hist.op = "update"
    /\ hist.toggles = 2
    /\ Len(hist.wrote) = 1
    /\ fx.last_transition_time = now
    /\ hist.last_toggle = now
    /\ now - hist.first_toggle >= 2 * fx.transition_period

(***************************************************************************)
(* C15: a Flicker.update(now) with dim d in 1..5, at least 33,333,333 ns   *)
(* after the last rendering, takes newval = 255 if bit 8 of the LFSR is    *)
(* set and the low byte of the LFSR otherwise, stores                      *)
(* (old - (old >> 1) + (newval << 7)) >> (6 - d) as the duty cycle, old    *)
(* being the stored duty cycle, writes it, returns it, and advances the    *)
(* LFSR by 1 to 3 steps, stopping after the first step that leaves a low   *)
(* byte > 128.                                                             *)
(***************************************************************************)
StepsTaken(rnd_lfsr, k) ==
    LET s1 == lfsr_step(rnd_lfsr)
        s2 == lfsr_step(s1)
        s3 == lfsr_step(s2)
    IN  <<s1, s2, s3>>[k]

Rendering ==
    \A t \in FlickerReadings :
        (fx.dim \in 1..5 /\ t >= fx.last_flicker + FLICKER_PERIOD
             /\ FlickerCallUpdate(t)) =>
            LET old == fx.duty_cycle
                bit8 == (fx.rnd_lfsr \div 256) % 2
                newval == IF bit8 = 1 THEN 255 ELSE fx.rnd_lfsr % 256
                duty == (old - (old \div 2) + newval * 128)
                            \div (2 ^ (6 - fx.dim))
            IN  /\ fx'.duty_cycle = duty
                /\ sink' = duty
                /\ ret' = duty
                /\ fx'.last_flicker = t
                /\ fx'.dim = fx.dim
                /\ \E k \in 1..3 :
                       /\ fx'.rnd_lfsr = StepsTaken(fx.rnd_lfsr, k)
                       /\ \A j \in 1..(k - 1) :
                              StepsTaken(fx.rnd_lfsr, j) % 256 <= 128
                       /\ k < 3 => fx'.rnd_lfsr % 256 > 128

C15_Rendering == [][Rendering]_vars

\* a second rendering: the filter had a nonzero duty cycle to start from,
\* and the LFSR stopped on a low byte of at most 128 (after three steps)
C15_Witness ==
    /\ fx.kind = "flicker" /\ fx.dim = 5
    /\ hist.op = "update"
    /\ hist.updates = 2
    /\ fx.last_flicker = now
    /\ now >= 2 * FLICKER_PERIOD
    /\ fx.duty_cycle > 0
    /\ sink = fx.duty_cycle /\ ret = fx.duty_cycle
    /\ fx.rnd_lfsr % 256 <= 128

(***************************************************************************)
(* C16: while ambient is the active state the I2S plays the ambient track  *)
(* in loop mode if an ambient track is bound, and plays nothing if none is *)
(* bound; the trigger track is never playing while ambient is active.      *)
(* Without an ambient track no step calls stop() or plays the ambient      *)
(* track.                                                                  *)
(***************************************************************************)
AmbientPlayback ==
    state = "ambient" =>
        /\ ambient_wave =>
               i2s = [playing |-> TRUE, track |-> "ambient", loop |-> TRUE]
        /\ ~ambient_wave => ~i2s.playing
        /\ ~(i2s.playing /\ i2s.track = "trigger")

NoAmbientAudioCalls ==
    ~ambient_wave =>
        \A k \in 1..Len(calls') :
            /\ calls'[k].op # "stop"
            /\ calls'[k].op = "play" => calls'[k].who = "trigger"

C16_AmbientPlayback == []AmbientPlayback /\ [][NoAmbientAudioCalls]_vars

\* back in ambient after a triggered episode, no ambient track bound: the
\* trigger track has ended and nothing plays
C16_Witness ==
    /\ state = "ambient"
    /\ ~ambient_wave
    /\ i2s = [playing |-> FALSE, track |-> "trigger", loop |-> FALSE]
    /\ Lifecycle(calls) =
           <<Ev("exit", "triggered", 0, 0), Ev("enter", "ambient", 0, 0)>>
    /\ Len(calls) = 2

(***************************************************************************)
(* C17 as stated: for each subtable (ambient, triggered) and each output,  *)
(* and any subset of the keys effect, dim, strobe, seed in the file,       *)
(* construction completes and the effect built for that output has the     *)
(* configured kind, dim, strobe (Dimmer) and seed (Flicker), a key that is *)
(* absent having the value dimmer, 0, 0 or the default seed.               *)
(***************************************************************************)
Configured(file, subtable, o, k) ==
    IF file.found /\ KeyNames[k][o] \in file[subtable].present
    THEN file[subtable].val[KeyNames[k][o]]
    ELSE IF k = "effect" THEN "dimmer"
    ELSE IF k = "seed"
         THEN (IF subtable = "triggered" /\ o = 2 THEN 27722 ELSE 21966)
    ELSE 0

AsConfigured(file, subtable, o) ==
    /\ Cardinality({i \in 1..Len(effects[subtable]) :
                        effects[subtable][i].out = o}) = 1
    /\ \A i \in 1..Len(effects[subtable]) :
           effects[subtable][i].out = o =>
               LET e == effects[subtable][i]
               IN  /\ e.kind = Configured(file, subtable, o, "effect")
                   /\ e.dim = Configured(file, subtable, o, "dim")
                   /\ e.kind = "dimmer" =>
                          e.strobe = Configured(file, subtable, o, "strobe")
                   /\ e.kind = "flicker" =>
                          e.rnd_lfsr = Configured(file, subtable, o, "seed")

C17_ConfiguredEffects ==
    (hist.op = "constructed") =>
        /\ fault = "none"
        /\ \A subtable \in states, o \in 1..2 :
               AsConfigured(hist.file, subtable, o)

(***************************************************************************)
(* C18: after the initial transition into ambient, an effect is updated    *)
(* and writes to a PWM output only while the state that owns it is         *)
(* entered: in the calls of every step, an update or a write of a state's  *)
(* effect comes after that state's enter() and not after its exit(), and   *)
(* the state is the active one.                                            *)
(***************************************************************************)
\* the states entered once the calls log[1..k] have been made
RECURSIVE EnteredAfter(_, _, _)
EnteredAfter(ent, log, k) ==
    IF k = 0 THEN ent
    ELSE LET before == EnteredAfter(ent, log, k - 1)
         IN  IF log[k].op = "enter" THEN before \cup {log[k].who}
             ELSE IF log[k].op = "exit" THEN before \ {log[k].who}
             ELSE before

OwnedEffectsOnly ==
    \A k \in 1..Len(calls') :
        calls'[k].op \in {"update", "write"} =>
            /\ calls'[k].who \in EnteredAfter(entered, calls', k)
            /\ calls'[k].who = state
            /\ state \in entered

C18_OwnedEffectsOnly == [][OwnedEffectsOnly]_vars

\* a tick with a falling edge: the ambient effects were updated and wrote,
\* then ambient was exited and triggered entered
C18_Witness ==
    /\ state = "triggered"
    /\ entered = {"triggered"}
    /\ \E k \in 1..Len(calls) :
           /\ calls[k].op = "write" /\ calls[k].who = "ambient"
           /\ \E j \in (k + 1)..Len(calls) :
                  calls[j] = Ev("exit", "ambient", 0, 0)

(***************************************************************************)
(* C19: a falling edge on a tick that starts with triggered active makes   *)
(* no transition into triggered and does not restart the trigger track:    *)
(* the tick does what it does without the edge.  The edge is not           *)
(* remembered: a later ambient tick without an edge stays in ambient.  The *)
(* trigger track is played only when triggered is entered from another     *)
(* state, once, and no go_to_state names the active state.                 *)
(***************************************************************************)
PlaysOfTrigger(log) ==
    Cardinality({k \in 1..Len(log) : log[k].op = "play"
                                        /\ log[k].who = "trigger"})

IgnoredEdge ==
    /\ \A t \in ClockReadings :
           (state = "triggered" /\ Tick(t, TRUE)) =>
               /\ PlaysOfTrigger(calls') = 0
               /\ state' = (IF i2s.playing THEN "triggered" ELSE "ambient")
               /\ Lifecycle(calls') =
                      (IF i2s.playing THEN <<>>
                       ELSE <<Ev("exit", "triggered", 0, 0),
                              Ev("enter", "ambient", 0, 0)>>)
               /\ MachineUpdate(At(Machine, t), TRUE) =
                      MachineUpdate(At(Machine, t), FALSE)
    /\ \A t \in ClockReadings :
           (state = "ambient" /\ trigger_fell /\ Tick(t, FALSE)) =>
               /\ state' = "ambient"
               /\ Lifecycle(calls') = <<>>
    /\ PlaysOfTrigger(calls') =
           (IF state # "triggered" /\ state' = "triggered" THEN 1 ELSE 0)
    /\ (state # "none" /\ Lifecycle(calls') # <<>>) =>
           /\ state' # state
           /\ Lifecycle(calls') = <<Ev("exit", state, 0, 0),
                                    Ev("enter", state', 0, 0)>>

C19_IgnoredEdge == [][IgnoredEdge]_vars

\* a tick of triggered, playback playing, on which the trigger fell
C19_Witness ==
    /\ state = "triggered"
    /\ trigger_fell
    /\ i2s = [playing |-> TRUE, track |-> "trigger", loop |-> FALSE]
    /\ Lifecycle(calls) = <<>>
    /\ Updates(calls) # <<>>

(***************************************************************************)
(* C20: at the end of every tick on which the active state's effects were  *)
(* updated, each output driven by a Dimmer of that state with strobe = 0   *)
(* carries gamma(dim) of that Dimmer, and the Dimmer's cached __last_dim   *)
(* is its dim, after any sequence of transitions between ambient and       *)
(* triggered.                                                              *)
(***************************************************************************)
CacheNeverStale ==
    \A t \in ClockReadings, fell \in BOOLEAN :
        (Tick(t, fell) /\ Updates(calls') # <<>>) =>
            \A i \in 1..Len(effects'[state]) :
                LET e == effects'[state][i]
                IN  (e.kind = "dimmer" /\ e.strobe = 0) =>
                        /\ pwm'[e.out] = linear_to_gamma(e.dim)
                        /\ e.last_dim = e.dim

C20_CacheNeverStale == [][CacheNeverStale]_vars

\* ambient (Dimmer at 200 on output 1) was updated after a triggered
\* episode whose Dimmer had written gamma(255) to the same output
C20_Witness ==
    /\ state = "ambient"
    /\ Lifecycle(calls) = <<>>
    /\ Updates(calls) # <<>>
    /\ Len(effects.ambient) >= 1 /\ Len(effects.triggered) >= 1
    /\ effects.ambient[1].kind = "dimmer" /\ effects.ambient[1].dim = 200
    /\ effects.triggered[1].kind = "dimmer"
    /\ effects.triggered[1].out = 1
    /\ effects.triggered[1].last_dim = 255
    /\ pwm[1] = 38402

=============================================================================
